---- MODULE Spec2Model ----
(***************************************************************************)
(* Model of drafts/cov.py: the amplicon coverage pipeline (main) and the   *)
(* pure functions it calls (percentage, _get_cov_stats, concatenate_files).*)
(*                                                                         *)
(* Text is modelled as sequences of tokens.  A token is either a white     *)
(* space character (TAB, SPACE) or an indivisible piece of text.  A line   *)
(* is a sequence of tokens (its final newline is implicit), a file is a    *)
(* sequence of lines and a file name is a sequence of tokens whose last    *)
(* token is its extension.                                                 *)
(* Percentages are kept in hundredths (66.67 is 6667, -1 is -100).         *)
(***************************************************************************)
EXTENDS Integers, Sequences, FiniteSets, Bags, TLC

\* ------------------------------------------------------------------ bounds
MaxSamples == 2
MaxRuns == 2
MaxRecords == 3
MaxFiles == 2
MaxLines == 2
MaxWhole == 10

\* --------------------------------------------------------- program constants
DEF_COV_THRESHOLD == 100
DATA_FOLDER == "data"
SAMPLE_DATA == "SampleData.csv"
SAMPLE_SELECTION == "SampleSelection.csv"
ALIGNMENT_FOLDER == "Alignment"
COV_FOLDER == "covs"
PLOT_FOLDER == "plots"
REPORT_FOLDER == "reports"
BED_FOLDER == "beds"
MERGED_COV_FILE == <<"all_samples", ".perbase", ".cov">>

\* round(x, 2): values are carried in units of 1/Scale
Scale == 100

TAB == "\t"
SPACE == " "
Whitespace == {TAB, SPACE}

\* ------------------------------------------------------------ text helpers
\* str.strip(): drops leading and trailing white space
RECURSIVE lstrip(_)
lstrip(s) ==
  IF Len(s) > 0 /\ s[1] \in Whitespace THEN lstrip(Tail(s)) ELSE s

RECURSIVE rstrip(_)
rstrip(s) ==
  IF Len(s) > 0 /\ s[Len(s)] \in Whitespace
  THEN rstrip(SubSeq(s, 1, Len(s) - 1)) ELSE s

strip(s) ==
  lstrip(rstrip(s))

\* str.startswith
startswith(s, prefix) ==
  /\ Len(prefix) <= Len(s)
  /\ SubSeq(s, 1, Len(prefix)) = prefix

\* str.endswith for an extension token
endswith(s, ext) ==
  /\ Len(s) > 0
  /\ s[Len(s)] = ext

Extensions == {".bam", ".bai", ".bed", ".pbcov", ".cov", ".perbase"}

\* os.path.splitext(f)[0]: the name without its last extension
splitext(f) ==
  IF Len(f) > 1 /\ f[Len(f)] \in Extensions
  THEN SubSeq(f, 1, Len(f) - 1) ELSE f

\* splitting a line on the tab separator (pd.read_csv(sep='\t'))
RECURSIVE SplitTab(_)
SplitTab(s) ==
  IF \A i \in 1..Len(s) : s[i] # TAB
  THEN <<s>>
  ELSE LET i == CHOOSE j \in 1..Len(s) :
                  /\ s[j] = TAB
                  /\ \A h \in 1..(j - 1) : s[h] # TAB
       IN <<SubSeq(s, 1, i - 1)>> \o SplitTab(SubSeq(s, i + 1, Len(s)))

\* joining fields with the tab separator (DataFrame.to_csv(sep='\t'))
RECURSIVE JoinTab(_)
JoinTab(fields) ==
  IF Len(fields) = 0 THEN <<>>
  ELSE IF Len(fields) = 1 THEN fields[1]
  ELSE fields[1] \o <<TAB>> \o JoinTab(Tail(fields))

\* all orders in which a directory listing can return the names of S
Listings(S) ==
  {s \in [1..Cardinality(S) -> S] :
     \A i, j \in 1..Cardinality(S) : i # j => s[i] # s[j]}

\* sequences over S of length at most n
SeqUpTo(S, n) ==
  UNION {[1..m -> S] : m \in 0..n}

RECURSIVE Flatten(_)
Flatten(ss) ==
  IF Len(ss) = 0 THEN <<>> ELSE Head(ss) \o Flatten(Tail(ss))

Range(s) ==
  {s[i] : i \in DOMAIN s}

\* --------------------------------------------------------- percentage
\* round(x, 2) of the non-negative quotient n / d, in hundredths
\* (round to nearest, a tie away from zero)
Round2(n, d) ==
  (2 * Scale * n + d) \div (2 * d)

\* a percentage that gives 0 for an empty whole
percentage_ZeroForEmpty(part, whole) ==
  IF whole > 0 THEN Round2(100 * part, whole) ELSE 0

\* percentage(part, whole), in hundredths
percentage(part, whole) ==
  IF whole > 0 THEN Round2(100 * part, whole) ELSE (-1) * Scale

\* ----------------------------------------------------- _get_cov_stats
\* truth value of an integer option: "if cov_threshold:"
Truthy(x) ==
  x # 0

\* the keys of df.groupby(['sample', 'feature'])
GroupKeys(df) ==
  {<<df[i].sample, df[i].feature>> : i \in DOMAIN df}

\* grouping by sample alone
GroupCoverage_BySample(df, key) ==
  LET InGroup(r) == r.sample = key[1]
      g == SelectSeq(df, InGroup)
  IN [i \in DOMAIN g |-> g[i].coverage]

\* the coverage values of one group, in table order
GroupCoverage(df, key) ==
  LET InGroup(r) == <<r.sample, r.feature>> = key
      g == SelectSeq(df, InGroup)
  IN [i \in DOMAIN g |-> g[i].coverage]

RECURSIVE amin(_)
amin(x) ==
  IF Len(x) = 1 THEN x[1]
  ELSE LET m == amin(Tail(x)) IN IF x[1] < m THEN x[1] ELSE m

RECURSIVE amax(_)
amax(x) ==
  IF Len(x) = 1 THEN x[1]
  ELSE LET m == amax(Tail(x)) IN IF x[1] > m THEN x[1] ELSE m

\* np.size(np.where(x > cov_threshold))
CountAbove(x, cov_threshold) ==
  Cardinality({i \in DOMAIN x : x[i] > cov_threshold})

\* one row of the stats table
StatsRow(df, key, cov_threshold) ==
  LET x == GroupCoverage(df, key)
  IN <<key[1], key[2], amin(x), amax(x)>> \o
     (IF Truthy(cov_threshold)
      THEN <<percentage(CountAbove(x, cov_threshold), Len(x))>>
      ELSE <<>>)

StatsColumns(cov_threshold) ==
  <<<<"sample">>, <<"feature">>, <<"min">>, <<"max">>>> \o
  (IF Truthy(cov_threshold)
   THEN <<<<"%cov_breadth_", ToString(cov_threshold), "x">>>>
   ELSE <<>>)

\* the conditional formats attached to the percentage column (E2:E<n+1>)
HighlightRules(cov_threshold) ==
  IF Truthy(cov_threshold)
  THEN << [criteria |-> "equal to", value |-> 100, format |-> "green"],
          [criteria |-> "equal to", value |-> 0, format |-> "red"],
          [criteria |-> "between", minimum |-> 0, maximum |-> 100,
           format |-> "orange"] >>
  ELSE <<>>

\* the spreadsheet's reading of a 'cell' rule for a cell value v (hundredths);
\* 'between' includes both ends
RuleMatches(rule, v) ==
  IF rule.criteria = "equal to"
  THEN v = rule.value * Scale
  ELSE rule.minimum * Scale <= v /\ v <= rule.maximum * Scale

\* the workbook written by _get_cov_stats: the rows are a bag (their order,
\* the sort order of the group keys, is not modelled)
get_cov_stats(df, cov_threshold) ==
  [columns |-> StatsColumns(cov_threshold),
   rows |-> SetToBag({StatsRow(df, key, cov_threshold) : key \in GroupKeys(df)}),
   rules |-> HighlightRules(cov_threshold)]

NoReport ==
  [columns |-> <<>>, rows |-> EmptyBag, rules |-> <<>>]

\* ----------------------------------------------------- concatenate_files
\* tagging with the whole file name, its extension kept
TagLine_FullName(line, f) ==
  strip(line) \o <<TAB>> \o f

\* the line written for one input line of file f
TagLine(line, f) ==
  strip(line) \o <<TAB>> \o splitext(f)

\* the lines written for the whole of file f
TagFile(lines, f) ==
  [i \in DOMAIN lines |-> TagLine(lines[i], f)]

\* the contents written to out_fpath; dir maps the names of a folder to
\* their contents, files is the list of names to read, in order
concatenate_files(files, dir) ==
  Flatten([i \in DOMAIN files |-> TagFile(dir[files[i]], files[i])])

\* ------------------------------------------------------- parse_cov_file
Depths == {5, 10, 40, 50}

\* int(text) for the text of a coverage depth
ParseInt(field) ==
  CHOOSE n \in Depths : <<ToString(n)>> = field

\* one record per line, the columns named by position
parse_cov_file(lines) ==
  [i \in DOMAIN lines |->
     LET f == SplitTab(lines[i])
     IN [ref |-> f[1], start |-> f[2], end |-> f[3], feature |-> f[4],
         base |-> f[5], coverage |-> ParseInt(f[6]), sample |-> f[7]]]

\* ------------------------------------------------------------- cov_plot
\* the figures saved: <sample>-<feature>.pbcov.png for each feature and each
\* sample having records of that feature
cov_plot(df) ==
  {df[i].sample \o <<"-">> \o df[i].feature \o <<".pbcov", ".png">> :
     i \in DOMAIN df}

\* ------------------------------------------------------ the environment
\* sample ids and file names
S1 == <<"S", "1">>
S10 == <<"S", "1", "0">>
S3 == <<"S", "3">>

\* the lines a sample-selection list is made of (a blank line included)
SelectionLines == {S1, S10, S3 \o <<SPACE>>, <<>>}

\* the files Alignment/ may hold
AlignmentFiles == {S1 \o <<".bam">>, S10 \o <<".bam">>, S3 \o <<".bai">>}

\* data/SampleData.csv: the master region table
SampleData ==
  << [sample_ID |-> S1, chromosome |-> <<"chr1">>, amplicon_start |-> <<"1">>,
      amplicon_end |-> <<"9">>, amplicon_name |-> <<"ampA">>],
     [sample_ID |-> S10, chromosome |-> <<"chr1">>, amplicon_start |-> <<"1">>,
      amplicon_end |-> <<"9">>, amplicon_name |-> <<"ampA">>],
     [sample_ID |-> S1, chromosome |-> <<"chr2">>, amplicon_start |-> <<"1">>,
      amplicon_end |-> <<"9">>, amplicon_name |-> <<"ampB">>] >>

\* the command line: -t may be absent
CliThresholds ==
  {[given |-> FALSE, value |-> 0]} \cup
  {[given |-> TRUE, value |-> v] : v \in {-1, 0, 30}}

OutputFolders == {ALIGNMENT_FOLDER, BED_FOLDER, COV_FOLDER, PLOT_FOLDER,
                  REPORT_FOLDER}

\* the depth the aligned reads of a .bam file give at every base
BamDepth(bam) ==
  IF bam = S1 \o <<".bam">> THEN 40 ELSE 5

\* coverageBed -d -a $bed -b $bam: the fields of each region of the bed
\* file, then the base (one base per region) and its depth
coverageBed(bam, bed) ==
  [i \in DOMAIN bed |-> bed[i] \o <<TAB, "1", TAB, ToString(BamDepth(bam))>>]

\* grep -v '^all': the lines kept
grep_v_all(lines) ==
  LET Keep(l) == ~ startswith(l, <<"all">>) IN SelectSeq(lines, Keep)

\* ------------------------------------------------------------ the state
VARIABLES
  projectDir,    \* the project folder exists
  dataFiles,     \* the files present in data/
  folders,       \* the folders present in the project folder
  alignment,     \* os.listdir(Alignment/), in the order it returns
  beds,          \* beds/: file name -> lines
  covs,          \* covs/: file name -> lines
  plots,         \* plots/: the file names
  report,        \* reports/stats.xlsx
  selection,     \* the lines of data/SampleSelection.csv
  argT,          \* the -t argument of this run
  pc,            \* position of main
  cov_threshold, \* options.cov_threshold
  samples,       \* main: samples
  bam_ordered,   \* main: bam_ordered
  inds,          \* run_bedtools_get_cov: the inds not yet processed
  cov_files,     \* main: cov_files
  df,            \* main: df
  error,         \* the exception that ended the run
  touched,       \* folders create_folder was called on in this run
  created,       \* folders os.makedirs made in this run
  written,       \* files written in this run, as <<folder, name>>
  invocations,   \* external commands started in this run
  run,           \* number of the run
  part,          \* percentage: argument
  whole,         \* percentage: argument
  result         \* percentage: return value

fsVars == <<projectDir, dataFiles, folders, alignment, beds, covs, plots, report>>
argVars == <<selection, argT>>
localVars == <<cov_threshold, samples, bam_ordered, inds, cov_files, df>>
histVars == <<touched, created, written, invocations>>
pctVars == <<part, whole, result>>
vars == <<fsVars, argVars, pc, localVars, error, histVars, run, pctVars>>

NoError ==
  [type |-> "none", message |-> "", names |-> {}]

\* --------------------------------------------------------- _get_options
\* a threshold check that lets every integer through
ThresholdOK_Unchecked(t) ==
  TRUE

\* "if (not isinstance(args.cov_threshold, int)) or args.cov_threshold < 0"
\* (argparse's type=int leaves only the sign to check)
ThresholdOK(t) ==
  t >= 0

\* argparse: default=_DEF_COV_THRESHOLD
ParsedThreshold(a) ==
  IF a.given THEN a.value ELSE DEF_COV_THRESHOLD

\* the checks of _get_options, in order; "none" when all pass
OptionsError(dir, files, t) ==
  IF ~ dir THEN "Project folder does not exist"
  ELSE IF SAMPLE_DATA \notin files THEN "SampleData file does not exist"
  ELSE IF SAMPLE_SELECTION \notin files THEN "SampleSelection file does not exist"
  ELSE IF ~ ThresholdOK(t) THEN "Coverage threshold must be a positive integer"
  ELSE "none"

Abort(type, message, names) ==
  /\ pc' = "aborted"
  /\ error' = [type |-> type, message |-> message, names |-> names]

\* main: options = _get_options()
GetOptions ==
  /\ pc = "start"
  /\ LET t == ParsedThreshold(argT)
         e == OptionsError(projectDir, dataFiles, t)
     IN IF e # "none"
        THEN /\ Abort("IOError", e, {})
             /\ UNCHANGED cov_threshold
        ELSE /\ pc' = "folders"
             /\ cov_threshold' = t
             /\ UNCHANGED error
  /\ UNCHANGED <<fsVars, argVars, samples, bam_ordered, inds, cov_files, df,
                 histVars, run, pctVars>>

\* main: the five create_folder calls
CreateFolders ==
  /\ pc = "folders"
  /\ touched' = touched \cup OutputFolders
  /\ created' = created \cup (OutputFolders \ folders)
  /\ folders' = folders \cup OutputFolders
  /\ pc' = "match"
  /\ UNCHANGED <<projectDir, dataFiles, alignment, beds, covs, plots, report,
                 argVars, localVars, error, written, invocations, run, pctVars>>

\* ------------------------------------------------ main: matching the samples
\* bam_files: the .bam files of the listing, in listing order
BamFiles(listing) ==
  LET IsBam(f) == endswith(f, ".bam") IN SelectSeq(listing, IsBam)

\* the inner loop: the first bam whose name starts with the sample
HasBam(sample, bam_files) ==
  \E j \in DOMAIN bam_files : startswith(bam_files[j], sample)

FirstBam(sample, bam_files) ==
  bam_files[CHOOSE j \in DOMAIN bam_files :
              /\ startswith(bam_files[j], sample)
              /\ \A h \in 1..(j - 1) : ~ startswith(bam_files[h], sample)]

\* samples_with_bam
SamplesWithBam(smpls, bam_files) ==
  LET Matched(sample) == HasBam(sample, bam_files)
  IN SelectSeq(smpls, Matched)

\* bam_ordered
BamOrdered(smpls, bam_files) ==
  LET with == SamplesWithBam(smpls, bam_files)
  IN [i \in DOMAIN with |-> FirstBam(with[i], bam_files)]

\* samples_without_bam
SamplesWithoutBam(smpls, bam_files) ==
  Range(smpls) \ Range(SamplesWithBam(smpls, bam_files))

\* main: reading the selection and matching it against Alignment/
MatchSamples ==
  /\ pc = "match"
  /\ LET smpls == [i \in DOMAIN selection |-> strip(selection[i])]
         bam_files == BamFiles(alignment)
         without == SamplesWithoutBam(smpls, bam_files)
     IN /\ samples' = smpls
        /\ bam_ordered' = BamOrdered(smpls, bam_files)
        /\ IF without # {}
           THEN Abort("ValueError", "No BAM file for samples", without)
           ELSE pc' = "beds" /\ UNCHANGED error
  /\ UNCHANGED <<fsVars, argVars, cov_threshold, inds, cov_files, df,
                 histVars, run, pctVars>>

\* ------------------------------------------------ main: the bed files
\* the rows of the master table of one sample, as written by to_csv
Subselect(sample) ==
  LET OfSample(r) == r.sample_ID = sample
      rows == SelectSeq(SampleData, OfSample)
  IN [i \in DOMAIN rows |->
        JoinTab(<<rows[i].chromosome, rows[i].amplicon_start,
                  rows[i].amplicon_end, rows[i].amplicon_name>>)]

BedName(bam) ==
  splitext(bam) \o <<".bed">>

\* the loop "for i, sample in enumerate(samples)" from index i on
RECURSIVE WriteBedsFrom(_, _, _, _)
WriteBedsFrom(i, smpls, ordered, dir) ==
  IF i > Len(smpls) THEN dir
  ELSE WriteBedsFrom(i + 1, smpls, ordered,
                     (BedName(ordered[i]) :> Subselect(smpls[i])) @@ dir)

WriteBeds ==
  /\ pc = "beds"
  /\ beds' = WriteBedsFrom(1, samples, bam_ordered, beds)
  /\ written' = written \cup
                {<<BED_FOLDER, BedName(bam_ordered[i])>> : i \in DOMAIN samples}
  /\ inds' = [i \in DOMAIN bam_ordered |-> splitext(bam_ordered[i])]
  /\ pc' = "cov"
  /\ UNCHANGED <<projectDir, dataFiles, folders, alignment, covs, plots,
                 report, argVars, cov_threshold, samples, bam_ordered,
                 cov_files, df, error, touched, created, invocations, run,
                 pctVars>>

\* ------------------------------------------------ run_bedtools_get_cov
\* one iteration of the loop: the shell runs the pipeline, its output goes to
\* $out and its exit status is that of grep, which is 0 when a line was kept
RunBedtools ==
  /\ pc = "cov"
  /\ inds # <<>>
  /\ LET ind == Head(inds)
         bam == ind \o <<".bam">>
         bed == ind \o <<".bed">>
         out == ind \o <<".pbcov">>
         lines == grep_v_all(coverageBed(bam, beds[bed]))
         returncode == IF Len(lines) > 0 THEN 0 ELSE 1
     IN /\ covs' = (out :> lines) @@ covs
        /\ written' = written \cup {<<COV_FOLDER, out>>}
        /\ invocations' = Append(invocations,
                                 [bam |-> bam, bed |-> bed, out |-> out])
        /\ IF returncode # 0
           THEN Abort("RuntimeError", "Failed BEDtools command", {}) /\ UNCHANGED inds
           ELSE inds' = Tail(inds) /\ UNCHANGED <<pc, error>>
  /\ UNCHANGED <<projectDir, dataFiles, folders, alignment, beds, plots,
                 report, argVars, cov_threshold, samples, bam_ordered,
                 cov_files, df, touched, created, run, pctVars>>

\* ------------------------------------------------ main: merging
Merge ==
  /\ pc = "cov"
  /\ inds = <<>>
  /\ \E listing \in Listings(DOMAIN covs) :
       LET IsCov(f) == endswith(f, ".pbcov")
           files == SelectSeq(listing, IsCov)
       IN /\ cov_files' = files
          /\ covs' = (MERGED_COV_FILE :> concatenate_files(files, covs)) @@ covs
  /\ written' = written \cup {<<COV_FOLDER, MERGED_COV_FILE>>}
  /\ pc' = "parse"
  /\ UNCHANGED <<projectDir, dataFiles, folders, alignment, beds, plots,
                 report, argVars, cov_threshold, samples, bam_ordered, inds,
                 df, error, touched, created, invocations, run, pctVars>>

\* ------------------------------------------------ main: table, plots, stats
\* pd.read_csv raises on a file without lines
Report ==
  /\ pc = "parse"
  /\ LET lines == covs[MERGED_COV_FILE]
     IN IF Len(lines) = 0
        THEN /\ Abort("EmptyDataError", "No columns to parse from file", {})
             /\ UNCHANGED <<df, plots, report, written>>
        ELSE LET table == parse_cov_file(lines)
             IN /\ df' = table
                /\ plots' = plots \cup cov_plot(table)
                /\ report' = get_cov_stats(table, cov_threshold)
                /\ written' = written \cup
                              {<<PLOT_FOLDER, f>> : f \in cov_plot(table)} \cup
                              {<<REPORT_FOLDER, <<"stats", ".xlsx">>>>}
                /\ pc' = "done"
                /\ UNCHANGED error
  /\ UNCHANGED <<projectDir, dataFiles, folders, alignment, beds, covs,
                 argVars, cov_threshold, samples, bam_ordered, inds,
                 cov_files, touched, created, invocations, run, pctVars>>

\* ------------------------------------------------ the next run
Selections ==
  IF SAMPLE_SELECTION \in dataFiles
  THEN SeqUpTo(SelectionLines, MaxSamples) ELSE {<<>>}

\* the script is started again on the same project folder
NewRun ==
  /\ pc \in {"done", "aborted"}
  /\ run < MaxRuns
  /\ run' = run + 1
  /\ selection' \in Selections
  /\ argT' \in CliThresholds
  /\ pc' = "start"
  /\ cov_threshold' = 0
  /\ samples' = <<>>
  /\ bam_ordered' = <<>>
  /\ inds' = <<>>
  /\ cov_files' = <<>>
  /\ df' = <<>>
  /\ error' = NoError
  /\ touched' = {}
  /\ created' = {}
  /\ written' = {}
  /\ invocations' = <<>>
  /\ UNCHANGED <<fsVars, pctVars>>

InitLocals ==
  /\ samples = <<>>
  /\ bam_ordered = <<>>
  /\ inds = <<>>
  /\ cov_files = <<>>
  /\ df = <<>>
  /\ error = NoError
  /\ touched = {}
  /\ created = {}
  /\ written = {}
  /\ invocations = <<>>
  /\ run = 1

InitPct ==
  /\ part = 0
  /\ whole = 0
  /\ result = 0

\* a project folder before the first run
Init ==
  /\ projectDir \in BOOLEAN
  /\ dataFiles \in (IF projectDir THEN SUBSET {SAMPLE_DATA, SAMPLE_SELECTION}
                    ELSE {{}})
  /\ folders \in (IF projectDir THEN {{}, {ALIGNMENT_FOLDER}} ELSE {{}})
  /\ alignment \in (IF ALIGNMENT_FOLDER \in folders
                    THEN UNION {Listings(S) : S \in SUBSET AlignmentFiles}
                    ELSE {<<>>})
  /\ beds = <<>>
  /\ covs = <<>>
  /\ plots = {}
  /\ report = NoReport
  /\ selection \in Selections
  /\ argT \in CliThresholds
  /\ pc = "start"
  /\ cov_threshold = 0
  /\ InitLocals
  /\ InitPct

Next ==
  \/ GetOptions
  \/ CreateFolders
  \/ MatchSamples
  \/ WriteBeds
  \/ RunBedtools
  \/ Merge
  \/ Report
  \/ NewRun

Spec ==
  Init /\ [][Next]_vars

\* ------------------------------------------- _get_cov_stats on its own
\* the lines a merged coverage file is made of
CovLines ==
  {JoinTab(<<<<"chr1">>, <<"1">>, <<"9">>, f, <<"1">>, <<ToString(d)>>, s>>) :
     f \in {<<"ampA">>, <<"ampB">>}, s \in {S1, S3}, d \in Depths}

\* a project whose merged coverage file was just written, under any
\* threshold that _get_options lets through
InitStats ==
  /\ projectDir = TRUE
  /\ dataFiles = {SAMPLE_DATA, SAMPLE_SELECTION}
  /\ folders = OutputFolders
  /\ alignment = <<>>
  /\ beds = <<>>
  /\ \E lines \in SeqUpTo(CovLines, MaxRecords) :
       covs = (MERGED_COV_FILE :> lines)
  /\ plots = {}
  /\ report = NoReport
  /\ selection = <<>>
  /\ argT \in {a \in CliThresholds :
                 OptionsError(projectDir, dataFiles, ParsedThreshold(a)) = "none"}
  /\ pc = "parse"
  /\ InitLocals
  /\ cov_threshold = ParsedThreshold(argT)
  /\ InitPct

SpecStats ==
  InitStats /\ [][Report]_vars

\* ------------------------------------------- concatenate_files on its own
CovNames == <<S1 \o <<".pbcov">>, S10 \o <<".pbcov">>, S3 \o <<".pbcov">>,
              <<"S", "2", ".pbcov">>>>

\* the lines a file to merge is made of: a well-formed line, a line that
\* starts with a space, has a space inside and an empty last field, and a
\* blank line
ConcatLines ==
  { <<"chr1", TAB, "ampA", TAB, "40">>,
    <<SPACE, "chr1", SPACE, TAB, "ampA", TAB>>,
    <<>> }

\* covs/ holds up to MaxFiles files of up to MaxLines lines and possibly
\* the merged file of an earlier run
InitConcat ==
  /\ projectDir = TRUE
  /\ dataFiles = {SAMPLE_DATA, SAMPLE_SELECTION}
  /\ folders = OutputFolders
  /\ alignment = <<>>
  /\ beds = <<>>
  /\ \E n \in 0..MaxFiles :
       \E contents \in [{CovNames[i] : i \in 1..n} -> SeqUpTo(ConcatLines, MaxLines)] :
         \E old \in BOOLEAN :
           covs = IF old
                  THEN (MERGED_COV_FILE :> << <<"chr1", TAB, "5", TAB, "S", "3">> >>)
                       @@ contents
                  ELSE contents
  /\ plots = {}
  /\ report = NoReport
  /\ selection = <<>>
  /\ argT = [given |-> FALSE, value |-> 0]
  /\ pc = "cov"
  /\ cov_threshold = DEF_COV_THRESHOLD
  /\ InitLocals
  /\ InitPct

SpecConcat ==
  InitConcat /\ [][Merge]_vars

\* ------------------------------------------------- percentage on its own
Percentage ==
  /\ pc = "call"
  /\ result' = percentage(part, whole)
  /\ pc' = "returned"
  /\ UNCHANGED <<fsVars, argVars, localVars, error, histVars, run, part, whole>>

InitPercentage ==
  /\ projectDir = FALSE
  /\ dataFiles = {}
  /\ folders = {}
  /\ alignment = <<>>
  /\ beds = <<>>
  /\ covs = <<>>
  /\ plots = {}
  /\ report = NoReport
  /\ selection = <<>>
  /\ argT = [given |-> FALSE, value |-> 0]
  /\ pc = "call"
  /\ cov_threshold = 0
  /\ InitLocals
  /\ part \in 0..MaxWhole
  /\ whole \in 0..MaxWhole
  /\ result = 0

SpecPercentage ==
  InitPercentage /\ [][Percentage]_vars

\* =================================================================== claims
Abs(n) ==
  IF n < 0 THEN -n ELSE n

\* the configuration _get_options must refuse
ConfigInvalid ==
  \/ ~ projectDir
  \/ SAMPLE_DATA \notin dataFiles
  \/ SAMPLE_SELECTION \notin dataFiles
  \/ ParsedThreshold(argT) < 0

\* C1: when the project folder or one of the two input files is missing, or
\* the threshold is negative, the run is aborted by _get_options with an
\* IOError, and by then create_folder was called on no folder, no folder was
\* made, no file was written and no command was started.
C1_ConfigErrorBeforeOutput ==
  (ConfigInvalid /\ pc # "start") =>
     /\ pc = "aborted"
     /\ error.type = "IOError"
     /\ touched = {}
     /\ created = {}
     /\ written = {}
     /\ invocations = <<>>

\* a run refused for its negative threshold alone
C1_Witness ==
  /\ projectDir
  /\ dataFiles = {SAMPLE_DATA, SAMPLE_SELECTION}
  /\ argT.given /\ argT.value < 0
  /\ pc = "aborted"
  /\ error.type = "IOError"

\* the selected samples no .bam file of Alignment/ starts with
Unmatched ==
  {strip(selection[i]) : i \in DOMAIN selection} \
  {sm \in {strip(selection[i]) : i \in DOMAIN selection} :
     \E j \in DOMAIN alignment :
        endswith(alignment[j], ".bam") /\ startswith(alignment[j], sm)}

\* C2: when some selected sample has no .bam file, the run aborts with an
\* error naming every unmatched sample, and at that moment none of beds/,
\* covs/, plots/, reports/ has been created, no file has been written and
\* the coverage tool has not been started.
C2_UnmatchedAbortsBeforeOutput ==
  (~ ConfigInvalid /\ Unmatched # {} /\ pc \notin {"start", "folders", "match"}) =>
     /\ pc = "aborted"
     /\ error.type = "ValueError"
     /\ error.names = Unmatched
     /\ created \cap {BED_FOLDER, COV_FOLDER, PLOT_FOLDER, REPORT_FOLDER} = {}
     /\ written = {}
     /\ invocations = <<>>

\* the records of a table that belong to one (sample, feature) pair
RecordsOf(table, sm, ft) ==
  {i \in DOMAIN table : table[i].sample = sm /\ table[i].feature = ft}

\* C3: for every accepted threshold (0 and the default included) the stats
\* table has a fifth column %cov_breadth_<threshold>x, and the value of each
\* row is 100 * count(depth > threshold) / total of its group, rounded to two
\* decimals.
C3_BreadthColumnForEveryThreshold ==
  (pc = "done") =>
     /\ Len(report.columns) = 5
     /\ report.columns[5] = <<"%cov_breadth_", ToString(cov_threshold), "x">>
     /\ \A r \in BagToSet(report.rows) :
          /\ Len(r) = 5
          /\ LET recs == RecordsOf(df, r[1], r[2])
                 n == Cardinality({i \in recs : df[i].coverage > cov_threshold})
                 t == Cardinality(recs)
             IN 2 * Abs(r[5] * t - 100 * Scale * n) <= t

\* the values a percentage cell can take for groups of up to MaxWhole
\* records, and the sentinel
CellValues ==
  UNION {{percentage(p, w) : p \in 0..w} : w \in 0..MaxWhole}

\* C4: when a threshold was supplied, at most one of the three highlight
\* rules holds for any cell value: the first exactly at 100, the second
\* exactly at 0, the third exactly strictly between 0 and 100, and none at
\* the sentinel -1.
C4_RulesMutuallyExclusive ==
  (pc = "done" /\ cov_threshold # 0) =>
     /\ Len(report.rules) = 3
     /\ \A v \in CellValues :
          /\ Cardinality({j \in 1..3 : RuleMatches(report.rules[j], v)}) <= 1
          /\ RuleMatches(report.rules[1], v) <=> (v = 100 * Scale)
          /\ RuleMatches(report.rules[2], v) <=> (v = 0)
          /\ RuleMatches(report.rules[3], v) <=> (0 < v /\ v < 100 * Scale)

\* number of lines of the files before cov_files[i]
RECURSIVE LinesBefore(_)
LinesBefore(i) ==
  IF i <= 1 THEN 0 ELSE LinesBefore(i - 1) + Len(covs[cov_files[i - 1]])

\* the line written for line j of the i-th file merged
MergedLine(i, j) ==
  covs[MERGED_COV_FILE][LinesBefore(i) + j]

\* the file name without its .pbcov extension
StemOf(f) ==
  CHOOSE st \in {SubSeq(f, 1, n) : n \in 0..Len(f)} : st \o <<".pbcov">> = f

\* the merged file has one line per input line, file after file and line
\* after line
MergedLineCount ==
  /\ Len(covs[MERGED_COV_FILE]) = LinesBefore(Len(cov_files) + 1)
  /\ \A n \in 1..Len(cov_files), R \in 0..(MaxLines + 1) :
       (\A i \in 1..n : Len(covs[cov_files[i]]) = R /\ n = Len(cov_files))
         => Len(covs[MERGED_COV_FILE]) = n * R

\* C5 (as stated): merging N files of R lines writes N*R lines, in input
\* order, and each output line is its input line with exactly one more
\* trailing tab-separated field, the stem of its file.
C5_OneExtraField ==
  (pc = "parse") =>
     /\ MergedLineCount
     /\ \A i \in DOMAIN cov_files : \A j \in DOMAIN covs[cov_files[i]] :
          SplitTab(MergedLine(i, j)) =
            SplitTab(covs[cov_files[i]][j]) \o <<StemOf(cov_files[i])>>

NoOuterWhitespace(line) ==
  Len(line) > 0 => (line[1] \notin Whitespace /\ line[Len(line)] \notin Whitespace)

\* C5 (amended): merging N files of R lines writes N*R lines, in input
\* order; each output line is its input line without its leading and
\* trailing white space, followed by a tab and the stem of its file, so that
\* a line that neither starts nor ends with white space gets exactly one more
\* trailing field.
C5_StrippedLinePlusStem ==
  (pc = "parse") =>
     /\ MergedLineCount
     /\ \A i \in DOMAIN cov_files : \A j \in DOMAIN covs[cov_files[i]] :
          LET inl == covs[cov_files[i]][j]
              outl == MergedLine(i, j)
          IN /\ \E a, b \in 0..Len(inl) :
                  /\ a + b <= Len(inl)
                  /\ \A h \in 1..a : inl[h] \in Whitespace
                  /\ \A h \in (Len(inl) - b + 1)..Len(inl) : inl[h] \in Whitespace
                  /\ NoOuterWhitespace(SubSeq(inl, a + 1, Len(inl) - b))
                  /\ outl = SubSeq(inl, a + 1, Len(inl) - b) \o <<TAB>> \o
                            StemOf(cov_files[i])
             /\ NoOuterWhitespace(inl) =>
                  SplitTab(outl) = SplitTab(inl) \o <<StemOf(cov_files[i])>>

\* two files of two lines were merged, one line with white space at an end
C5_Witness ==
  /\ pc = "parse"
  /\ Len(cov_files) = 2
  /\ \A i \in DOMAIN cov_files : Len(covs[cov_files[i]]) = 2
  /\ Len(covs[MERGED_COV_FILE]) = 4
  /\ \E i \in DOMAIN cov_files : \E j \in DOMAIN covs[cov_files[i]] :
       ~ NoOuterWhitespace(covs[cov_files[i]][j])
  /\ \E i \in DOMAIN cov_files : \E j \in DOMAIN covs[cov_files[i]] :
       Len(covs[cov_files[i]][j]) > 0 /\ NoOuterWhitespace(covs[cov_files[i]][j])

\* C6: percentage(part, whole) is -1 whenever whole = 0, 0.0 for part = 0 and
\* whole > 0, 100.0 for part = whole > 0, and within [0, 100] for every
\* 0 <= part <= whole with whole > 0.
C6_PercentageValues ==
  (pc = "returned") =>
     /\ (whole = 0) => (result = (-1) * Scale)
     /\ (part = 0 /\ whole > 0) => (result = 0)
     /\ (part = whole /\ whole > 0) => (result = 100 * Scale)
     /\ (0 <= part /\ part <= whole /\ whole > 0) =>
          (0 <= result /\ result <= 100 * Scale)

\* percentage(2, 3) returned 66.67
C6_Witness ==
  /\ pc = "returned"
  /\ part = 2
  /\ whole = 3
  /\ result = 6667

C8_OneCoverageFilePerSample ==
  (pc = "parse") =>
     /\ Len(invocations) = Len(samples)
     /\ \A i \in DOMAIN invocations : startswith(invocations[i].bam, samples[i])
     /\ \A i, j \in DOMAIN invocations :
          samples[i] # samples[j] =>
            /\ invocations[i].bam # invocations[j].bam
            /\ invocations[i].out # invocations[j].out
     /\ Cardinality({invocations[i].out : i \in DOMAIN invocations}) =
        Cardinality(Range(samples))

\* C9: when the coverage runner starts, the bed file named after the .bam
\* file matched to a selected sample holds exactly the rows of the master
\* table of that sample.
C9_BedHoldsOwnRows ==
  (pc = "cov" /\ invocations = <<>>) =>
     \A i \in DOMAIN samples :
        beds[splitext(bam_ordered[i]) \o <<".bed">>] = Subselect(samples[i])

\* C10: the merged file written by a run is made only of the coverage files
\* this run's tool invocations wrote: the tag of each of its lines is the
\* stem of such a file, and the merged file is not among the files read.
C10_MergedFromThisRunOnly ==
  (<<COV_FOLDER, MERGED_COV_FILE>> \in written) =>
     /\ MERGED_COV_FILE \notin Range(cov_files)
     /\ \A n \in DOMAIN covs[MERGED_COV_FILE] :
          LET f == SplitTab(covs[MERGED_COV_FILE][n])
          IN f[Len(f)] \in {splitext(invocations[i].out) : i \in DOMAIN invocations}

====
